---- MODULE Spec2Model ----
(***************************************************************************)
(* GaslessRelayTool (src/tools/gasless_relay.py): the execute_gasless_     *)
(* transfer coroutine and its helpers.  An execution is a coroutine of the *)
(* asyncio event loop: it runs without interruption between two awaits on  *)
(* the RPC client, so one action is the code between two such awaits.      *)
(* requests.post is a blocking call and is part of the step that makes it. *)
(***************************************************************************)
EXTENDS Integers, Sequences, FiniteSets, TLC

\* ---------------------------------------------------------------- bounds
MaxCalls == 2
MaxAmount == 2
MaxBalance == 2
MaxPrice == 2
MaxFee == 2

\* ------------------------------------------------------ program constants
\* config.min_agent_gas_balance = Decimal("0.001"); the unit here is 0.001 GAS
min_agent_gas_balance == 1

\* ----------------------------------------------------------- input sets
\* the requests the server is handling at the same time
Slots == {"t1", "t2"}
\* a new request takes the first free slot
Earlier(e) == IF e = "t2" THEN {"t1"} ELSE {}
Users == {"alice"}
Signers == {"alice", "mallory"}
Receivers == {"bob"}
Assets == {"NEO"}
IntentIds == {"uuid-1", "uuid-2"}
TxIds == {"0xdeadbeef", "0xfeedface"}
relay_contract_hash == "0x1a2b3c"

NoReq == [kind |-> "none"]
NoResult == [status |-> "none"]
NoTx == [kind |-> "none"]
NotHex == [kind |-> "nothex"]

\* what rpc_client.invoke_function gives back: the balance, or an exception
BalanceReplies ==
    {[ok |-> FALSE, state |-> 0]} \cup {[ok |-> TRUE, state |-> b] : b \in 0..MaxBalance}

VARIABLES
    ex,              \* the executions of execute_gasless_transfer, one per slot
    witnessPatched,  \* _build_custom_witness is replaced by the tests' stub
    calls,           \* number of calls made so far
    accepted,        \* intent_ids of the calls that passed verification so far
    submitted,       \* per intent_id, the number of send_raw_transaction calls
    vm,              \* a NeoVM running a script the tool has built
    quote,           \* an evaluation of estimate_gas_cost
    pair             \* two evaluations of _build_relay_script

relay == <<ex, witnessPatched, calls, accepted, submitted>>

\* the variables of the evaluations of single functions
pure == <<vm, quote, pair>>

vars == <<ex, witnessPatched, calls, accepted, submitted, vm, quote, pair>>

Off == [status |-> "off"]

\* ------------------------------------------------------- pure functions

\* line 91
net_amount_of(gross_amount, fee_in_asset) == gross_amount - fee_in_asset

\* a payload that also carries the asset
intent_jsonMut(r) ==
    [from |-> r.from_addr, to |-> r.to_addr, gross_amount |-> r.gross_amount,
     fee_in_asset |-> r.fee_in_asset, intent_id |-> r.intent_id,
     asset |-> r.asset_hash]

\* lines 94-101: json.dumps(intent_data, sort_keys=True); asset_hash is not in it
intent_json(r) ==
    [from |-> r.from_addr, to |-> r.to_addr, gross_amount |-> r.gross_amount,
     fee_in_asset |-> r.fee_in_asset, intent_id |-> r.intent_id]

\* what the off-chain signer produces: a signature by `who` over payload `msg`
SignatureOf(who, msg) == [kind |-> "sig", signer |-> who, msg |-> msg]

\* lines 102-106: bytes.fromhex raises on a non-hex string; recovery over another
\* message yields a key that belongs to none of the known addresses
recover_address(msg, sig) ==
    IF sig = NotHex THEN "raise"
    ELSE IF sig.msg = msg THEN sig.signer
    ELSE "unrelated"

\* a verification that omits the comparison of line 108
verify_intentMut(r) ==
    LET a == recover_address(intent_json(r), r.user_signature)
    IN  IF a = "raise" THEN "ValueError(fromhex)" ELSE "ok"

\* lines 93-109: "ok", or the exception raised
verify_intent(r) ==
    LET a == recover_address(intent_json(r), r.user_signature)
    IN  IF a = "raise" THEN "ValueError(fromhex)"
        ELSE IF a # r.from_addr THEN "ValueError(Invalid user signature for intent)"
        ELSE "ok"

\* lines 196-206: a failed query is Decimal(0)
get_gas_balance(reply) == IF reply.ok THEN reply.state ELSE 0

\* a comparison that also tops up at the minimum
needs_swapMut(balance) == balance <= min_agent_gas_balance

\* line 174
needs_swap(balance) == balance < min_agent_gas_balance

\* lines 215-217, 239: types.UInt160.from_string drops a leading "0x" and reads
\* the hexadecimal digits in either letter case; the names below stand for
\* 40-digit texts, each value being named by its lower-case text without prefix
UInt160_from_string(s) ==
    CASE s \in {"0xalice", "0xALICE", "ALICE"} -> "alice"
      [] s \in {"0xbob", "0xBOB", "BOB"} -> "bob"
      [] s \in {"0xneo", "0xNEO"} -> "NEO"
      [] s \in {"0x1a2b3c", "0x1A2B3C", "1A2B3C"} -> "1a2b3c"
      [] s \in {"0x4d5e6f", "0x4D5E6F", "4D5E6F"} -> "4d5e6f"
      [] OTHER -> s

\* ScriptBuilder.emit_push of an int, of bytes (a text's encoding), of a UInt160;
\* ScriptBuilder.emit and emit_syscall
PushInt(n) == [op |-> "PUSH", t |-> "int", v |-> n]
PushBytes(s) == [op |-> "PUSH", t |-> "bytes", v |-> s]
PushUInt160(h) == [op |-> "PUSH", t |-> "uint160", v |-> h]
Emit(opcode) == [op |-> opcode, t |-> "none", v |-> 0]
EmitSyscall(name) == [op |-> "SYSCALL", t |-> "name", v |-> name]

\* a builder that leaves the asset out of the script
relay_scriptMut(config_hash, from_addr, to_addr, asset_hash, net_amount, burn_amount, intent_id) ==
    << PushBytes(intent_id),
       PushInt(burn_amount),
       PushInt(net_amount),
       PushUInt160(UInt160_from_string(to_addr)),
       PushUInt160(UInt160_from_string(to_addr)),
       PushUInt160(UInt160_from_string(from_addr)),
       PushInt(0),
       PushInt(7),
       Emit("PACK"),
       PushBytes("transferWithFeeFromAmount"),
       PushUInt160(UInt160_from_string(config_hash)),
       EmitSyscall("System.Contract.Call") >>

\* lines 208-245 with self.config.relay_contract_hash as config_hash: the emitted
\* instruction sequence
relay_script(config_hash, from_addr, to_addr, asset_hash, net_amount, burn_amount, intent_id) ==
    << PushBytes(intent_id),
       PushInt(burn_amount),
       PushInt(net_amount),
       PushUInt160(UInt160_from_string(asset_hash)),
       PushUInt160(UInt160_from_string(to_addr)),
       PushUInt160(UInt160_from_string(from_addr)),
       PushInt(0),
       PushInt(7),
       Emit("PACK"),
       PushBytes("transferWithFeeFromAmount"),
       PushUInt160(UInt160_from_string(config_hash)),
       EmitSyscall("System.Contract.Call") >>

\* a builder that pushes the arguments in the declared order
build_relay_scriptMut(from_addr, to_addr, asset_hash, net_amount, burn_amount, intent_id) ==
    relay_script(relay_contract_hash, intent_id, asset_hash, to_addr, burn_amount,
                 net_amount, from_addr)

\* lines 208-245 in the tool built from the configuration
build_relay_script(from_addr, to_addr, asset_hash, net_amount, burn_amount, intent_id) ==
    relay_script(relay_contract_hash, from_addr, to_addr, asset_hash, net_amount,
                 burn_amount, intent_id)

\* lines 247-294: line 279 reads the name intent_id, which is neither a parameter
\* nor a global of the module: NameError.  The tests replace the method by a stub
\* (tests/test_gasless_relay.py line 109).
build_custom_witness(user_addr, contract_hash_str, patched) ==
    IF patched THEN [kind |-> "stub"] ELSE [kind |-> "NameError"]

\* lines 274-275, 292: nothing is pushed by the invocation script
invocation_script == <<>>

\* lines 278-289, with the name intent_id of line 279 bound to the intent of the
\* execution: the texts are pushed as their encodings
verification_script(user_addr, contract_hash_str, intent_id) ==
    << PushBytes(intent_id),
       Emit("DUP"),
       PushBytes(user_addr),
       PushBytes("verify"),
       PushBytes(contract_hash_str),
       PushInt(0),
       PushInt(3),
       Emit("PACK"),
       EmitSyscall("System.Contract.Call"),
       Emit("ASSERT") >>

\* a result that reports the gross amount
make_resultMut(r, txid) ==
    [txid |-> txid, net_amount |-> r.gross_amount,
     burn_amount |-> r.fee_in_asset, status |-> "sent", intent_id |-> r.intent_id]

\* lines 91, 145-151
make_result(r, txid) ==
    [txid |-> txid, net_amount |-> net_amount_of(r.gross_amount, r.fee_in_asset),
     burn_amount |-> r.fee_in_asset, status |-> "sent", intent_id |-> r.intent_id]

\* ------------------------------------------------------------ state

\* hist: the states of the orchestrator's state machine entered so far
\* ops: the steps performed so far (verify, balance, swap, script, witness, sign,
\*      broadcast); failedAt: the stage in which the exception was raised
Idle == [pc |-> "idle", req |-> NoReq, replay |-> FALSE, hist |-> <<>>, ops |-> <<>>,
         balance |-> -1, balanceFailed |-> FALSE, swap |-> "none",
         tx |-> NoTx, sent |-> "none",
         result |-> NoResult, error |-> "none", failedAt |-> "none"]

\* the signatures a caller may present with an intent: not hexadecimal, or a
\* signature by any signer over this intent; the amounts are the smallest and the
\* largest gross amount with every fee up to the largest
SignaturesFor(c) ==
    {NotHex} \cup { SignatureOf(w, c) : w \in Signers }

Intents ==
    [from : Users, to : Receivers, gross_amount : {1, MaxAmount},
     fee_in_asset : 0..MaxAmount, intent_id : IntentIds]

Requests ==
    UNION { { [from_addr |-> c.from, to_addr |-> c.to, asset_hash |-> a,
               gross_amount |-> c.gross_amount, fee_in_asset |-> c.fee_in_asset,
               intent_id |-> c.intent_id, user_signature |-> s] :
                 a \in Assets, s \in SignaturesFor(c) } : c \in Intents }

\* lines 20-23: a tool that has served no request
NoRequests ==
    /\ ex = [e \in Slots |-> Idle]
    /\ calls = 0
    /\ accepted = {}
    /\ submitted = [i \in IntentIds |-> 0]

Init ==
    /\ NoRequests
    /\ witnessPatched \in BOOLEAN
    /\ vm = Off
    /\ quote = Off
    /\ pair = Off

\* the synchronous HTTP calls that are given a timeout: line 159 passes
\* timeout=5 to requests.get, lines 185-189 pass none to requests.post
HasTimeout(call) == call \in {"price"}

\* an execution sits in a synchronous call that never returns; the call runs on
\* the event loop's thread, so no coroutine of the process runs again
Blocked == \E e \in Slots : ex[e].pc = "blocked_swap"

\* the stage an exception of execute_gasless_transfer names: the ValueErrors of
\* lines 95 and 109, the HTTPError of line 190, the NameError of line 279 and the
\* RPC exception re-raised at line 313 are plain exceptions with a message and
\* no stage attribute, and nothing between the raise and the caller wraps them
error_stage(error) == "none"

Raise(x, kind, at, last) ==
    [x EXCEPT !.pc = "raised", !.error = kind, !.failedAt = at,
              !.hist = Append(@, last)]

\* lines 67-112, 171-173, 193-201: the coroutine from its start to the first
\* await on the RPC client (the balance query)
execute_gasless_transfer(e, r) ==
    /\ ~Blocked
    /\ ex[e].pc = "idle"
    /\ \A d \in Earlier(e) : ex[d].pc # "idle"
    /\ calls < MaxCalls
    /\ calls' = calls + 1
    /\ LET x0 == [ex[e] EXCEPT !.req = r, !.hist = <<"Received">>,
                               !.ops = <<"verify">>,
                               !.replay = (r.intent_id \in accepted)]
           v == verify_intent(r)
       IN  /\ ex' = [ex EXCEPT ![e] =
                    IF v # "ok" THEN Raise(x0, v, "verify", "Rejected")
                    ELSE [x0 EXCEPT !.pc = "await_balance",
                                    !.hist = Append(@, "Verified"),
                                    !.ops = Append(@, "balance")]]
           /\ accepted' = IF v = "ok" THEN accepted \cup {r.intent_id} ELSE accepted
    /\ UNCHANGED pure
    /\ UNCHANGED <<witnessPatched, submitted>>

\* lines 114-144, 305-309: from the return of _ensure_agent_has_gas to the await
\* on send_raw_transaction; the transaction of lines 125-134 exists from the
\* moment the script is built
AssembleAndSend(x) ==
    LET r == x.req
        script == build_relay_script(r.from_addr, r.to_addr, r.asset_hash,
                      net_amount_of(r.gross_amount, r.fee_in_asset),
                      r.fee_in_asset, r.intent_id)
        x1 == [x EXCEPT !.hist = Append(@, "Funded"), !.ops = Append(@, "script"),
                        !.tx = [script |-> script, witness |-> [kind |-> "none"],
                                signed |-> FALSE]]
        w == build_custom_witness(r.from_addr, relay_contract_hash, witnessPatched)
        x2 == [x1 EXCEPT !.ops = Append(@, "witness")]
    IN  IF w.kind = "NameError" THEN Raise(x2, "NameError", "assemble", "Failed")
        ELSE [x2 EXCEPT !.pc = "await_broadcast",
                        !.tx = [script |-> script, witness |-> w, signed |-> TRUE],
                        !.hist = @ \o <<"Assembled", "Signed", "Submitted">>,
                        !.ops = @ \o <<"sign", "broadcast">>]

\* the execution after the reply to the balance query, were a failed swap ignored
after_balanceMut(x, reply, swap) ==
    LET balance == get_gas_balance(reply)
        x0 == [x EXCEPT !.balance = balance, !.balanceFailed = ~reply.ok]
    IN  IF needs_swap(balance)
        THEN AssembleAndSend([x0 EXCEPT !.ops = Append(@, "swap"), !.swap = swap])
        ELSE AssembleAndSend(x0)

\* lines 202-206, 174-191, then AssembleAndSend: the execution after the reply to
\* the balance query; swap is the outcome of the blocking POST /swap: a good
\* status, an error, or no response at all
after_balance(x, reply, swap) ==
    LET balance == get_gas_balance(reply)
        x0 == [x EXCEPT !.balance = balance, !.balanceFailed = ~reply.ok]
    IN  IF needs_swap(balance)
        THEN LET x1 == [x0 EXCEPT !.ops = Append(@, "swap"), !.swap = swap]
             IN  IF swap = "fail"
                 THEN Raise(x1, "HTTPError", "fund", "Failed")
                 ELSE IF swap = "silent"
                 THEN IF HasTimeout("swap")
                      THEN Raise(x1, "Timeout", "fund", "Failed")
                      ELSE [x1 EXCEPT !.pc = "blocked_swap"]
                 ELSE AssembleAndSend(x1)
        ELSE AssembleAndSend(x0)

\* lines 171-175 and what follows them: the coroutine resumes with the reply to
\* the balance query and runs to the await on the broadcast
ensure_agent_has_gas(e, reply, swap) ==
    /\ ~Blocked
    /\ ex[e].pc = "await_balance"
    /\ LET x == after_balance(ex[e], reply, swap)
       IN  /\ ex' = [ex EXCEPT ![e] = x]
           /\ submitted' = IF x.pc = "await_broadcast"
                           THEN [submitted EXCEPT ![x.req.intent_id] = @ + 1]
                           ELSE submitted
    /\ UNCHANGED pure
    /\ UNCHANGED <<witnessPatched, calls, accepted>>

\* a broadcast that is sent again when it fails
send_raw_transactionMut(e, reply) ==
    /\ ~Blocked
    /\ ex[e].pc = "await_broadcast"
    /\ LET x == ex[e]
       IN  ex' = [ex EXCEPT ![e] =
                    IF reply = "fail"
                    THEN [x EXCEPT !.ops = Append(@, "broadcast")]
                    ELSE [x EXCEPT !.pc = "returned", !.sent = reply,
                                   !.hist = Append(@, "Done"),
                                   !.result = make_result(x.req, reply)]]
    /\ UNCHANGED pure
    /\ UNCHANGED <<witnessPatched, calls, accepted, submitted>>

\* lines 309-313, 145-151: the coroutine resumes with the reply to the broadcast
send_raw_transaction(e, reply) ==
    /\ ~Blocked
    /\ ex[e].pc = "await_broadcast"
    /\ LET x == ex[e]
       IN  ex' = [ex EXCEPT ![e] =
                    IF reply = "fail"
                    THEN Raise(x, "RpcError", "submit", "Failed")
                    ELSE [x EXCEPT !.pc = "returned", !.sent = reply,
                                   !.hist = Append(@, "Done"),
                                   !.result = make_result(x.req, reply)]]
    /\ UNCHANGED pure
    /\ UNCHANGED <<witnessPatched, calls, accepted, submitted>>

\* mcp_server.py lines 60-70: the handler hands the result (or the exception) to
\* the transport and the coroutine is gone
execute_gasless_transfer_tool(e) ==
    /\ ~Blocked
    /\ ex[e].pc \in {"returned", "raised"}
    /\ ex' = [ex EXCEPT ![e] = Idle]
    /\ UNCHANGED pure
    /\ UNCHANGED <<witnessPatched, calls, accepted, submitted>>

\* ------------------------------------------------- the scripts on a NeoVM

NoVal == [t |-> "none", v |-> 0]
NoCall == [hash |-> NoVal]

\* what an instruction pushes
Operand(i) == [t |-> i.t, v |-> i.v]

\* lines 250-251: the invocation script runs first and the verification script
\* runs on the stack it leaves; the head of stack is the top
VmLoad(kind, inv, ver, user_addr, hash_text, intent_id) ==
    [status |-> "run", kind |-> kind, code |-> inv \o ver, boundary |-> Len(inv),
     ip |-> 1, stack |-> <<>>, proof |-> NoVal, duped |-> NoVal, packed |-> NoVal,
     call |-> NoCall, user_addr |-> user_addr, hash_text |-> hash_text,
     intent_id |-> intent_id]

WitnessUsers == {"alice", "bob", "0xALICE"}
ContractHashTexts == {"0x1a2b3c", "0x1A2B3C", "0x4d5e6f"}

WitnessRuns ==
    { VmLoad("witness", invocation_script, verification_script(u, h, i), u, h, i) :
        u \in WitnessUsers, h \in ContractHashTexts, i \in IntentIds }

Fault(m) == [m EXCEPT !.status = "fault"]

\* one instruction: PUSH and DUP as in lines 279-286, PACK as in line 234 (the
\* count, then that many items, into an array), System.Contract.Call as in line
\* 231 (contract_hash, method, call_flags, args), ASSERT as in line 267
VmStep(m, ret) ==
    LET i == m.code[m.ip]
        st == m.stack
        m1 == [m EXCEPT !.ip = @ + 1,
                        !.proof = IF m.ip = m.boundary + 1 /\ Len(st) > 0
                                  THEN st[1] ELSE @]
    IN  CASE i.op = "PUSH" -> [m1 EXCEPT !.stack = <<Operand(i)>> \o st]
          [] i.op = "DUP" ->
                IF Len(st) = 0 THEN Fault(m1)
                ELSE [m1 EXCEPT !.stack = <<st[1]>> \o st, !.duped = st[1]]
          [] i.op = "PACK" ->
                IF Len(st) = 0 \/ st[1].t # "int" THEN Fault(m1)
                ELSE IF Len(st) < st[1].v + 1 THEN Fault(m1)
                ELSE LET arr == [t |-> "array", v |-> SubSeq(st, 2, st[1].v + 1)]
                     IN  [m1 EXCEPT !.stack = <<arr>> \o SubSeq(st, st[1].v + 2, Len(st)),
                                    !.packed = arr]
          [] i.op = "SYSCALL" ->
                IF Len(st) < 4 THEN Fault(m1)
                ELSE LET c == [hash |-> st[1], method |-> st[2], flags |-> st[3],
                               args |-> st[4]]
                     IN  IF c.hash.t = "uint160" /\ c.method.t = "bytes"
                            /\ c.flags.t = "int" /\ c.args.t = "array"
                         THEN [m1 EXCEPT !.call = c,
                                         !.stack = <<[t |-> "bool", v |-> ret]>>
                                                    \o SubSeq(st, 5, Len(st))]
                         ELSE Fault([m1 EXCEPT !.call = c])
          [] i.op = "ASSERT" ->
                IF Len(st) = 0 \/ st[1] # [t |-> "bool", v |-> TRUE] THEN Fault(m1)
                ELSE [m1 EXCEPT !.stack = Tail(st)]
          [] OTHER -> Fault(m1)

\* the VM executes the next instruction, or halts at the end of the script
vm_execute(ret) ==
    /\ vm # Off
    /\ vm.status = "run"
    /\ vm' = IF vm.ip > Len(vm.code) THEN [vm EXCEPT !.status = "halt"]
             ELSE VmStep(vm, ret)
    /\ UNCHANGED <<relay, quote, pair>>

VmInit ==
    /\ NoRequests
    /\ witnessPatched = FALSE
    /\ vm \in WitnessRuns
    /\ quote = Off
    /\ pair = Off

VmNext == \E ret \in BOOLEAN : vm_execute(ret)

SpecVm == VmInit /\ [][VmNext]_vars

\* ------------------------------------------- _build_relay_script, twice

FromTexts == {"alice", "0xALICE", "bob"}
ToTexts == {"bob", "alice"}
AssetTexts == {"NEO", "FLM"}

ScriptArgs ==
    [config_hash : ContractHashTexts, from_addr : FromTexts, to_addr : ToTexts,
     asset_hash : AssetTexts, net_amount : 0..MaxAmount, burn_amount : 0..MaxAmount,
     intent_id : IntentIds]

\* the argument lists that differ from a in at most one argument
Variants(a) ==
    {a} \cup {[a EXCEPT !.config_hash = v] : v \in ContractHashTexts}
        \cup {[a EXCEPT !.from_addr = v] : v \in FromTexts}
        \cup {[a EXCEPT !.to_addr = v] : v \in ToTexts}
        \cup {[a EXCEPT !.asset_hash = v] : v \in AssetTexts}
        \cup {[a EXCEPT !.net_amount = v] : v \in 0..MaxAmount}
        \cup {[a EXCEPT !.burn_amount = v] : v \in 0..MaxAmount}
        \cup {[a EXCEPT !.intent_id = v] : v \in IntentIds}

ScriptOf(a) ==
    relay_script(a.config_hash, a.from_addr, a.to_addr, a.asset_hash, a.net_amount,
                 a.burn_amount, a.intent_id)

\* lines 208-245, called once with the arguments a and once with b
build_relay_script_twice ==
    /\ pair # Off
    /\ pair.status = "args"
    /\ pair' = [pair EXCEPT !.status = "built", !.sa = ScriptOf(pair.a),
                            !.sb = ScriptOf(pair.b)]
    /\ UNCHANGED <<relay, vm, quote>>

ScriptInit ==
    /\ NoRequests
    /\ witnessPatched = FALSE
    /\ vm = Off
    /\ quote = Off
    /\ \E a \in ScriptArgs : \E b \in Variants(a) :
          pair = [status |-> "args", a |-> a, b |-> b, sa |-> <<>>, sb |-> <<>>]

ScriptNext == build_relay_script_twice

SpecScript == ScriptInit /\ [][ScriptNext]_vars

\* ------------------------------------------- the relay script on a NeoVM

RelayArgs ==
    [from_addr : FromTexts, to_addr : ToTexts, asset_hash : AssetTexts,
     net_amount : 0..MaxAmount, burn_amount : 0..MaxAmount, intent_id : IntentIds]

\* the script of lines 208-245 loaded as the transaction's script (line 127), with
\* the arguments it was built from kept beside it
RelayRun(a) ==
    [args |-> a] @@
    VmLoad("relay", <<>>,
           build_relay_script(a.from_addr, a.to_addr, a.asset_hash, a.net_amount,
                              a.burn_amount, a.intent_id),
           a.from_addr, relay_contract_hash, a.intent_id)

RelayRuns == { RelayRun(a) : a \in RelayArgs }

VmRelayInit ==
    /\ NoRequests
    /\ witnessPatched = FALSE
    /\ vm \in RelayRuns
    /\ quote = Off
    /\ pair = Off

SpecVmRelay == VmRelayInit /\ [][VmNext]_vars

\* ------------------------------------------- the verification, twice

\* what a wallet may have signed for the intent c: the five fields, or the five
\* fields and an asset
SignedPayloads(c) == {c} \cup { [asset |-> a] @@ c : a \in AssetTexts }

VerifySignatures(c) ==
    {NotHex} \cup { SignatureOf(w, m) : w \in Signers, m \in SignedPayloads(c) }

VerifyRequests ==
    UNION { { [from_addr |-> c.from, to_addr |-> c.to, asset_hash |-> a,
               gross_amount |-> c.gross_amount, fee_in_asset |-> c.fee_in_asset,
               intent_id |-> c.intent_id, user_signature |-> s] :
                 a \in AssetTexts, s \in VerifySignatures(c) } : c \in Intents }

\* lines 93-109, run for the request a and for the request b
verify_intent_twice ==
    /\ pair # Off
    /\ pair.status = "requests"
    /\ pair' = [pair EXCEPT !.status = "verified", !.va = verify_intent(pair.a),
                            !.vb = verify_intent(pair.b)]
    /\ UNCHANGED <<relay, vm, quote>>

VerifyInit ==
    /\ NoRequests
    /\ witnessPatched = FALSE
    /\ vm = Off
    /\ quote = Off
    /\ \E a \in VerifyRequests, v \in AssetTexts :
          pair = [status |-> "requests", a |-> a, b |-> [a EXCEPT !.asset_hash = v],
                  va |-> "none", vb |-> "none"]

VerifyNext == verify_intent_twice

SpecVerify == VerifyInit /\ [][VerifyNext]_vars

\* --------------------------------------------------- estimate_gas_cost

\* the unit of fee_gas is 0.00001 GAS and the unit of a price is 0.1, so that
\* fee_gas 0.00012 is 12 and price 42.7 is 427
\* line 169
asset_decimals == 8

\* what GET /price gives back: an error (exception or HTTP status), a body
\* without the price field, a body with a price, or nothing at all
PriceReplies ==
    {[kind |-> "error", price |-> 0], [kind |-> "nofield", price |-> 0],
     [kind |-> "silent", price |-> 0]}
        \cup {[kind |-> "price", price |-> p] : p \in (-MaxPrice..MaxPrice) \cup {427}}

FeeGasValues == (0..MaxFee) \cup {12}
SlippageBps == {0, 50}
QuoteIntentIds == IntentIds \cup {"None"}

\* lines 156-165: None on any exception (the timeout of line 159 is one), else
\* float(data.get("price", 0))
get_price_from_flamingo(reply) ==
    IF reply.kind = "error" \/ (reply.kind = "silent" /\ HasTimeout("price"))
    THEN [none |-> TRUE, price |-> 0]
    ELSE IF reply.kind = "nofield" THEN [none |-> FALSE, price |-> 0]
    ELSE [none |-> FALSE, price |-> reply.price]

\* int() of a quotient: rounding toward zero
TruncDiv(n, d) ==
    LET an == IF n < 0 THEN -n ELSE n
        ad == IF d < 0 THEN -d ELSE d
    IN  IF (n >= 0) = (d > 0) THEN an \div ad ELSE -(an \div ad)

\* a buffer that is taken off the quote
fee_rawMut(fee_gas, price, slippage_bps) ==
    TruncDiv(fee_gas * (10000 - slippage_bps), price)

\* lines 49-54 for price # 0: int((f + f * bps / 10000) * 10^8) with f = fee_gas /
\* price; in the units above 10^8 * 0.00001 / 0.1 = 10000 cancels the 10000 of the
\* basis points
fee_raw(fee_gas, price, slippage_bps) ==
    TruncDiv(fee_gas * (10000 + slippage_bps), price)

\* lines 43-62: the quote, or the exception raised
estimate(reply, fee_gas, slippage_bps, intent_id) ==
    LET p == get_price_from_flamingo(reply)
    IN  IF reply.kind = "silent" /\ ~HasTimeout("price")
        THEN [status |-> "blocked"]
        ELSE IF p.none
        THEN [status |-> "raised", error |-> "RuntimeError"]
        ELSE IF p.price = 0
        THEN [status |-> "raised",
              error |-> IF fee_gas = 0 THEN "InvalidOperation" ELSE "DivisionByZero"]
        ELSE LET raw == fee_raw(fee_gas, p.price, slippage_bps)
             IN  [status |-> "returned",
                  result |-> [fee_in_asset |-> raw, asset_decimals |-> asset_decimals,
                              burn_amount |-> raw, intent_id |-> intent_id,
                              source |-> "flamingo_oracle"]]

\* lines 28-62
estimate_gas_cost ==
    /\ quote # Off
    /\ quote.status = "called"
    /\ quote' = [quote EXCEPT !.status = "done",
                    !.out = estimate(quote.reply, quote.fee_gas, quote.slippage_bps,
                                     quote.intent_id)]
    /\ UNCHANGED <<relay, vm, pair>>

QuoteInit ==
    /\ NoRequests
    /\ witnessPatched = FALSE
    /\ vm = Off
    /\ pair = Off
    /\ \E reply \in PriceReplies, f \in FeeGasValues, b \in SlippageBps,
          i \in QuoteIntentIds :
            quote = [status |-> "called", reply |-> reply, fee_gas |-> f,
                     slippage_bps |-> b, intent_id |-> i, out |-> Off]

QuoteNext == estimate_gas_cost

SpecQuote == QuoteInit /\ [][QuoteNext]_vars

\* lines 185-190: the POST /swap answers with a good status, answers with an
\* error (or the connection fails), or never answers
SwapOutcomes == {"ok", "fail", "silent"}

Next ==
    \/ \E e \in Slots, r \in Requests : execute_gasless_transfer(e, r)
    \/ \E e \in Slots, reply \in BalanceReplies, swap \in SwapOutcomes :
            ensure_agent_has_gas(e, reply, swap)
    \/ \E e \in Slots, reply \in {"fail"} \cup TxIds : send_raw_transaction(e, reply)
    \/ \E e \in Slots : execute_gasless_transfer_tool(e)

Spec == Init /\ [][Next]_vars

\* ------------------------------------------------------------ claims

Has(seq, op) == \E k \in DOMAIN seq : seq[k] = op

Count(seq, op) == Cardinality({k \in DOMAIN seq : seq[k] = op})

Started(e) == ex[e].pc # "idle"

AfterVerifyOps == {"balance", "swap", "script", "witness", "sign", "broadcast"}

\* C1: a call whose intent_id is that of an earlier accepted call is rejected
\* before any agent-account step, and no intent_id is broadcast twice.
C1_ReplayRejected ==
    /\ \A i \in IntentIds : submitted[i] <= 1
    /\ \A e \in Slots :
          ex[e].replay => /\ ~Has(ex[e].ops, "balance")
                          /\ ~Has(ex[e].ops, "broadcast")

\* C2: a request with fee_in_asset >= gross_amount is rejected, and its execution
\* makes no balance query, swap, script, witness, signature or broadcast.
C2_NegativeNetRejected ==
    \A e \in Slots :
        (Started(e) /\ ex[e].req.fee_in_asset >= ex[e].req.gross_amount)
            => /\ ex[e].pc = "raised"
               /\ \A op \in AfterVerifyOps : ~Has(ex[e].ops, op)

\* C3: verification is the first step of every execution; when key recovery
\* fails or the recovered address is not from_addr, the call raises and none of
\* the later steps is taken.
C3_VerifyFirst ==
    \A e \in Slots :
        Started(e) =>
            /\ ex[e].ops[1] = "verify"
            /\ Count(ex[e].ops, "verify") = 1
            /\ (recover_address(intent_json(ex[e].req), ex[e].req.user_signature)
                    # ex[e].req.from_addr)
                 => /\ ex[e].pc = "raised"
                    /\ ex[e].failedAt = "verify"
                    /\ ex[e].ops = <<"verify">>
                    /\ ex[e].result = NoResult

\* C3 witness: an execution was rejected for a signature by another signer, and
\* one for a signature whose key recovery fails.
C3_Witness ==
    \E e \in Slots :
        /\ ex[e].pc = "raised"
        /\ ex[e].failedAt = "verify"
        /\ ex[e].req.user_signature # NotHex
        /\ ex[e].req.user_signature.signer = "mallory"

\* C4: a returned result has net_amount = gross_amount - fee_in_asset, burn_amount
\* = fee_in_asset, status "sent", the request's intent_id and the txid that the
\* broadcast returned.
C4_ResultFields ==
    \A e \in Slots :
        ex[e].pc = "returned" =>
            /\ ex[e].result.net_amount = ex[e].req.gross_amount - ex[e].req.fee_in_asset
            /\ ex[e].result.burn_amount = ex[e].req.fee_in_asset
            /\ ex[e].result.status = "sent"
            /\ ex[e].result.intent_id = ex[e].req.intent_id
            /\ ex[e].result.txid = ex[e].sent
            /\ ex[e].sent \in TxIds

\* C4 witness: a result was returned for a request with a positive fee below the
\* gross amount.
C4_Witness ==
    \E e \in Slots :
        /\ ex[e].pc = "returned"
        /\ ex[e].req.fee_in_asset > 0
        /\ ex[e].req.fee_in_asset < ex[e].req.gross_amount

\* C5: an execution of a verified, new request with fee_in_asset < gross_amount
\* whose collaborator calls all succeed does not raise: it ends in Done.
C5_ValidRequestReachesDone ==
    \A e \in Slots :
        ex[e].pc = "raised" =>
            \/ ex[e].failedAt = "verify"
            \/ ex[e].req.fee_in_asset >= ex[e].req.gross_amount
            \/ ex[e].replay
            \/ ex[e].swap = "fail"
            \/ ex[e].error = "RpcError"

\* C6: the states are entered in the order Received, Verified, Funded, Assembled,
\* Signed, Submitted, Done, each at most once, and an execution aborts only at
\* verification, at funding or at submission.
LinearOrder == <<"Received", "Verified", "Funded", "Assembled", "Signed", "Submitted", "Done">>

IsPrefix(p, q) == Len(p) <= Len(q) /\ \A k \in 1..Len(p) : p[k] = q[k]

C6_AbortsOnlyFromVerifyFundSubmit ==
    \A e \in Slots :
        Started(e) =>
            /\ LET h == ex[e].hist
                   live == IF ex[e].pc = "raised" THEN SubSeq(h, 1, Len(h) - 1) ELSE h
               IN  IsPrefix(live, LinearOrder)
            /\ ex[e].failedAt \in {"none", "verify", "fund", "submit"}

\* C7: at no time are two executions between the start of the balance check and
\* the completion of the broadcast.
InAgentSection(e) == ex[e].pc \in {"await_balance", "await_broadcast"}

C7_AgentSectionSerialized ==
    Cardinality({e \in Slots : InAgentSection(e)}) <= 1

\* C8: once the balance is known, exactly one swap was issued if it is below the
\* minimum and none otherwise (none at balance = minimum).
C8_SwapIffBelowMinimum ==
    \A e \in Slots :
        ex[e].balance >= 0 =>
            Count(ex[e].ops, "swap") =
                (IF ex[e].balance < min_agent_gas_balance THEN 1 ELSE 0)

\* C8 witness: one execution saw the balance at the minimum and issued no swap,
\* another saw it below and issued one.
C8_Witness ==
    \E e, d \in Slots :
        /\ ex[e].balance = min_agent_gas_balance
        /\ ~ex[e].balanceFailed
        /\ ~Has(ex[e].ops, "swap")
        /\ Has(ex[e].ops, "script")
        /\ ex[d].balance >= 0
        /\ ex[d].balance < min_agent_gas_balance
        /\ Has(ex[d].ops, "swap")

\* C9: when the swap fails the execution raises: one swap only, no script, no
\* witness, no signature, no broadcast and no result.
C9_SwapFailureIsFatal ==
    \A e \in Slots :
        ex[e].swap = "fail" =>
            /\ ex[e].pc = "raised"
            /\ ex[e].failedAt = "fund"
            /\ Count(ex[e].ops, "swap") = 1
            /\ \A op \in {"script", "witness", "sign", "broadcast"} : ~Has(ex[e].ops, op)
            /\ ex[e].tx = NoTx
            /\ ex[e].result = NoResult

\* C9 witness: a swap failed in an execution.
C9_Witness ==
    \E e \in Slots : ex[e].swap = "fail" /\ Has(ex[e].ops, "swap")

\* C10: after a failed balance query the balance counts as zero, a swap is
\* attempted, and when the swap succeeds the execution goes on to assembly and to
\* submission.
C10_BalanceFailureContinuesToSubmission ==
    \A e \in Slots :
        ex[e].balanceFailed =>
            /\ ex[e].balance = 0
            /\ Has(ex[e].ops, "swap")
            /\ ex[e].swap = "ok" => /\ Has(ex[e].ops, "script")
                                    /\ Has(ex[e].ops, "broadcast")

\* C11: an execution calls the broadcast at most once; when that call fails the
\* exception of the collaborator leaves the call as it is, nothing is sent again
\* and no result is returned.
C11_BroadcastOnceAndFatal ==
    \A e \in Slots :
        /\ Count(ex[e].ops, "broadcast") <= 1
        /\ ex[e].failedAt = "submit" =>
              /\ ex[e].pc = "raised"
              /\ ex[e].error = "RpcError"
              /\ Count(ex[e].ops, "broadcast") = 1
              /\ ex[e].result = NoResult
              /\ ex[e].hist[Len(ex[e].hist)] = "Failed"

\* C11 witness: the broadcast of an execution failed.
C11_Witness ==
    \E e \in Slots : ex[e].failedAt = "submit" /\ Has(ex[e].ops, "broadcast")

\* C12: the relay script of an execution is push intent_id, push fee_in_asset,
\* push gross_amount - fee_in_asset, push asset_hash, push to_addr, push from_addr,
\* push call flags, push argument count, PACK, push "transferWithFeeFromAmount",
\* push relay contract hash, SYSCALL System.Contract.Call.
Ops(script) == [k \in DOMAIN script |-> script[k].op]

C12_RelayScriptShape ==
    \A e \in Slots :
        Has(ex[e].ops, "script") =>
            LET s == ex[e].tx.script
                r == ex[e].req
            IN  /\ Ops(s) = <<"PUSH", "PUSH", "PUSH", "PUSH", "PUSH", "PUSH", "PUSH",
                              "PUSH", "PACK", "PUSH", "PUSH", "SYSCALL">>
                /\ s[1].v = r.intent_id
                /\ s[2].v = r.fee_in_asset
                /\ s[3].v = r.gross_amount - r.fee_in_asset
                /\ s[4].v = r.asset_hash
                /\ s[5].v = r.to_addr
                /\ s[6].v = r.from_addr
                /\ s[10].v = "transferWithFeeFromAmount"
                /\ s[11].v = "1a2b3c"
                /\ s[12].v = "System.Contract.Call"

\* C12 witness: a script was built for a request with a positive fee below the
\* gross amount.
C12_Witness ==
    \E e \in Slots :
        /\ Has(ex[e].ops, "script")
        /\ ex[e].tx # NoTx
        /\ ex[e].req.fee_in_asset > 0
        /\ ex[e].req.fee_in_asset < ex[e].req.gross_amount

\* C13: in a run of the witness scripts, DUP duplicates the proof left by the
\* invocation script, PACK packs exactly the three arguments of verify (user
\* address, proof, intent_id), the call is to "verify" of the relay contract
\* hash, and the last instruction is ASSERT.
Items(arr) == {arr.v[k] : k \in DOMAIN arr.v}

C13_WitnessCallsVerify ==
    (vm # Off /\ vm.kind = "witness") =>
        /\ vm.code[Len(vm.code)].op = "ASSERT"
        /\ vm.duped # NoVal => (vm.proof # NoVal /\ vm.duped = vm.proof)
        /\ vm.packed # NoVal =>
              /\ Len(vm.packed.v) = 3
              /\ Items(vm.packed) = {[t |-> "bytes", v |-> vm.user_addr], vm.proof,
                                     [t |-> "bytes", v |-> vm.intent_id]}
        /\ vm.call # NoCall =>
              /\ vm.call.method = [t |-> "bytes", v |-> "verify"]
              /\ vm.call.hash = [t |-> "uint160", v |-> UInt160_from_string(vm.hash_text)]

\* C14: in every execution that reaches witness construction, _build_custom_witness
\* itself returns a witness, and the first value its verification script pushes is
\* the intent_id of the call.
C14_WitnessBuiltFromIntent ==
    \A e \in Slots :
        (Has(ex[e].ops, "witness") /\ ~witnessPatched) =>
            /\ ex[e].error # "NameError"
            /\ ex[e].tx.witness.kind = "built"
            /\ ex[e].tx.witness.verification_script[1].v = ex[e].req.intent_id

\* C15 as claimed: identical arguments give identical scripts, and two argument
\* lists that differ in exactly one argument give different scripts.
DiffFields(a, b) == {f \in DOMAIN a : a[f] # b[f]}

C15_InjectiveInEachArgument ==
    (pair # Off /\ pair.status = "built") =>
        /\ pair.a = pair.b => pair.sa = pair.sb
        /\ Cardinality(DiffFields(pair.a, pair.b)) = 1 => pair.sa # pair.sb

\* the arguments as the values they denote
Denoted(a) ==
    [a EXCEPT !.config_hash = UInt160_from_string(@),
              !.from_addr = UInt160_from_string(@),
              !.to_addr = UInt160_from_string(@),
              !.asset_hash = UInt160_from_string(@)]

\* C15 as amended: the script is a function of the values the arguments denote,
\* and two argument lists whose denoted values differ in exactly one argument
\* give different scripts.
C15_InjectiveInEachValue ==
    (pair # Off /\ pair.status = "built") =>
        /\ Denoted(pair.a) = Denoted(pair.b) => pair.sa = pair.sb
        /\ Cardinality(DiffFields(Denoted(pair.a), Denoted(pair.b))) = 1
              => pair.sa # pair.sb

\* C15 witness: two scripts were built from argument lists that differ in the
\* asset only, and they differ.
C15_Witness ==
    /\ pair # Off
    /\ pair.status = "built"
    /\ DiffFields(pair.a, pair.b) = {"asset_hash"}
    /\ pair.sa # pair.sb

\* C16: estimate_gas_cost raises, and returns no quote, whenever the price
\* collaborator errors or gives a price that is zero, negative or absent.
QuoteDone == quote # Off /\ quote.status = "done"

C16_NoQuoteWithoutPositivePrice ==
    (QuoteDone /\ (quote.reply.kind # "price" \/ quote.reply.price <= 0))
        => quote.out.status = "raised"

\* C17: a returned quote has burn_amount = fee_in_asset >= 0, asset_decimals = 8
\* and the intent_id of the call.
C17_QuoteFields ==
    (QuoteDone /\ quote.out.status = "returned") =>
        /\ quote.out.result.burn_amount = quote.out.result.fee_in_asset
        /\ quote.out.result.fee_in_asset >= 0
        /\ quote.out.result.asset_decimals = 8
        /\ quote.out.result.intent_id = quote.intent_id

\* C18: for a positive price the quote is at least floor((fee_gas / price) * 10^8),
\* and for price 42.7, fee_gas 0.00012 and 50 basis points it is strictly above
\* (0.00012 / 42.7) * 10^8.
C18_BufferNeverLowers ==
    (QuoteDone /\ quote.reply.kind = "price" /\ quote.reply.price > 0) =>
        /\ quote.out.status = "returned"
        /\ quote.out.result.fee_in_asset >= (quote.fee_gas * 10000) \div quote.reply.price
        /\ (quote.reply.price = 427 /\ quote.fee_gas = 12 /\ quote.slippage_bps = 50)
              => quote.out.result.fee_in_asset * 427 > 12 * 10000

\* C18 witness: the quote for price 42.7, fee_gas 0.00012 and 50 basis points
\* was returned.
C18_Witness ==
    /\ QuoteDone
    /\ quote.reply = [kind |-> "price", price |-> 427]
    /\ quote.fee_gas = 12
    /\ quote.slippage_bps = 50
    /\ quote.out.status = "returned"
    /\ quote.out.result.fee_in_asset = 282

\* C19: every external call carries a timeout: an execution whose collaborator
\* never responds aborts with an error, it is never left waiting forever in the
\* call, and it makes the call once.
C19_UnansweredCallAborts ==
    /\ \A e \in Slots :
          /\ ex[e].pc # "blocked_swap"
          /\ ex[e].swap = "silent" => (ex[e].pc = "raised" /\ ex[e].failedAt = "fund")
          /\ Count(ex[e].ops, "swap") <= 1
          /\ Count(ex[e].ops, "balance") <= 1
          /\ Count(ex[e].ops, "broadcast") <= 1
    /\ (quote # Off /\ quote.status = "done" /\ quote.reply.kind = "silent")
          => quote.out.status = "raised"

\* C20: every failing execute_gasless_transfer call gives its caller an error
\* that names a stage, one of verify, fund, assemble, submit, and the stage named
\* is the one the execution failed in.
C20_ErrorNamesStage ==
    \A e \in Slots :
        ex[e].pc = "raised" =>
            /\ error_stage(ex[e].error) \in {"verify", "fund", "assemble", "submit"}
            /\ error_stage(ex[e].error) = ex[e].failedAt

\* C21: in the relay script the count pushed just before PACK is the number of
\* method arguments, six, so PACK leaves an array of exactly intent_id,
\* burn_amount, net_amount, asset_hash, to_addr, from_addr (from_addr first, as
\* pushed last) on top of the stack and the call-flags value under it, outside
\* the array.
JustPacked ==
    /\ vm # Off
    /\ vm.kind = "relay"
    /\ vm.ip > 1
    /\ vm.ip <= Len(vm.code) + 1
    /\ vm.code[vm.ip - 1].op = "PACK"

MethodArguments(a) ==
    << [t |-> "uint160", v |-> UInt160_from_string(a.from_addr)],
       [t |-> "uint160", v |-> UInt160_from_string(a.to_addr)],
       [t |-> "uint160", v |-> UInt160_from_string(a.asset_hash)],
       [t |-> "int", v |-> a.net_amount],
       [t |-> "int", v |-> a.burn_amount],
       [t |-> "bytes", v |-> a.intent_id] >>

C21_PackCountIsArgumentCount ==
    JustPacked =>
        /\ vm.code[vm.ip - 2] = PushInt(Len(MethodArguments(vm.args)))
        /\ vm.status = "run"
        /\ Len(vm.stack) = 2
        /\ vm.stack[1] = [t |-> "array", v |-> MethodArguments(vm.args)]
        /\ vm.stack[2] = [t |-> "int", v |-> 0]

\* C22: two requests that differ in asset_hash only get the same outcome from
\* the verification: both are accepted or both are rejected, with the same error.
C22_AssetNotSigned ==
    (pair # Off /\ pair.status = "verified") =>
        /\ pair.va = pair.vb
        /\ pair.va = verify_intent([pair.a EXCEPT !.asset_hash = "NEO"])

\* C22 witness: one signature was accepted for two requests with different
\* assets.
C22_Witness ==
    /\ pair # Off
    /\ pair.status = "verified"
    /\ pair.a.asset_hash # pair.b.asset_hash
    /\ pair.a.user_signature = pair.b.user_signature
    /\ pair.va = "ok"
    /\ pair.vb = "ok"

====
